---- MODULE Spec2Model ----
(***************************************************************************)
(* FORGE EditableCell: inline editing of a comparison table.               *)
(*                                                                         *)
(* State machine of the EditableCell component: the per-cell edit session  *)
(* (enterEditMode / saveValue / cancelEdit), the change tracking in        *)
(* AppState.changes and AppState.originalData, the list editor, keyboard   *)
(* navigation inside a row and the recomputation of calculated cells.      *)
(*                                                                         *)
(* JavaScript strings are sequences of one-character strings, so that      *)
(* trim, split, join and parseFloat are computed and not assumed.          *)
(***************************************************************************)
EXTENDS Integers, Sequences, FiniteSets, TLC

(***************************************************************************)
(* Strings                                                                 *)
(***************************************************************************)
Digits == {"0", "1", "2", "3", "4", "5", "6", "7", "8", "9"}

DigitVal(ch) ==
  CASE ch = "0" -> 0 [] ch = "1" -> 1 [] ch = "2" -> 2 [] ch = "3" -> 3
    [] ch = "4" -> 4 [] ch = "5" -> 5 [] ch = "6" -> 6 [] ch = "7" -> 7
    [] ch = "8" -> 8 [] ch = "9" -> 9

\* s.substring(i - 1): the characters of s from position i on.
Drop(s, i) == IF i > Len(s) THEN << >> ELSE SubSeq(s, i, Len(s))

RECURSIVE TrimLeft(_)
TrimLeft(s) ==
  IF s # << >> /\ Head(s) = " " THEN TrimLeft(Tail(s)) ELSE s

RECURSIVE TrimRight(_)
TrimRight(s) ==
  IF s # << >> /\ s[Len(s)] = " " THEN TrimRight(SubSeq(s, 1, Len(s) - 1)) ELSE s

\* String.prototype.trim
Trim(s) == TrimRight(TrimLeft(s))

\* String.prototype.split(','): the pieces between the commas, empty pieces kept.
RECURSIVE SplitComma(_, _)
SplitComma(s, piece) ==
  IF s = << >> THEN << piece >>
  ELSE IF Head(s) = "," THEN << piece >> \o SplitComma(Tail(s), << >>)
  ELSE SplitComma(Tail(s), Append(piece, Head(s)))

Split(s) == SplitComma(s, << >>)

\* Array.prototype.map(s => s.trim()).filter(s => s)
RECURSIVE TrimFilter(_)
TrimFilter(items) ==
  IF items = << >> THEN << >>
  ELSE IF Trim(Head(items)) = << >> THEN TrimFilter(Tail(items))
  ELSE << Trim(Head(items)) >> \o TrimFilter(Tail(items))

\* Array.prototype.join(', ')
RECURSIVE Join(_)
Join(items) ==
  IF items = << >> THEN << >>
  ELSE IF Len(items) = 1 THEN Head(items)
  ELSE Head(items) \o << ",", " " >> \o Join(Tail(items))

\* String.prototype.includes(',')
IncludesComma(s) == \E i \in 1..Len(s) : s[i] = ","

(***************************************************************************)
(* Numbers.  parseFloat reads the longest numeric prefix after leading     *)
(* white space: an optional sign, digits, an optional fraction.  The       *)
(* result is NaN or the rational (-1)^neg * num / den.                     *)
(***************************************************************************)
RECURSIVE DigitRun(_)
DigitRun(s) ==
  IF s # << >> /\ Head(s) \in Digits THEN << Head(s) >> \o DigitRun(Tail(s)) ELSE << >>

RECURSIVE DigitsToNat(_, _)
DigitsToNat(ds, acc) ==
  IF ds = << >> THEN acc ELSE DigitsToNat(Tail(ds), 10 * acc + DigitVal(Head(ds)))

RECURSIVE Pow10(_)
Pow10(n) == IF n = 0 THEN 1 ELSE 10 * Pow10(n - 1)

NaN == [nan |-> TRUE, neg |-> FALSE, num |-> 0, den |-> 1]

\* the number with integer digits ip and fraction digits fp
Decimal(neg, ip, fp) ==
  IF ip = << >> /\ fp = << >> THEN NaN
  ELSE [nan |-> FALSE, neg |-> neg,
        num |-> DigitsToNat(ip \o fp, 0), den |-> Pow10(Len(fp))]

\* the digits of the fraction that starts the rest r, if one does
FractionDigits(r) ==
  IF r # << >> /\ Head(r) = "." THEN DigitRun(Tail(r)) ELSE << >>

ParseAfterInteger(neg, u, ip) ==
  Decimal(neg, ip, FractionDigits(Drop(u, Len(ip) + 1)))

ParseUnsigned(neg, u) == ParseAfterInteger(neg, u, DigitRun(u))

ParseSigned(t) ==
  IF t # << >> /\ Head(t) \in {"-", "+"}
  THEN ParseUnsigned(Head(t) = "-", Tail(t))
  ELSE ParseUnsigned(FALSE, t)

ParseFloat(value) == ParseSigned(TrimLeft(value))

\* num >= 0 on a parsed number (-0 >= 0 is true in JavaScript)
GeqZero(n) == ~n.nan /\ (~n.neg \/ n.num = 0)

\* Number(value) reads the whole string: white space around it is dropped,
\* the empty string is 0, anything but one decimal literal is NaN.  (The
\* strings of this model hold no exponent, no hexadecimal and no Infinity.)
Unsigned(t) == IF t # << >> /\ Head(t) \in {"-", "+"} THEN Tail(t) ELSE t

\* r is what follows the integer digits ip: nothing, or a fraction to the end
IsFractionOrEnd(ip, r) ==
  IF r = << >> THEN ip # << >>
  ELSE /\ Head(r) = "."
       /\ Len(DigitRun(Tail(r))) = Len(r) - 1
       /\ (ip # << >> \/ Len(r) > 1)

IsDecimalLiteral(u) == IsFractionOrEnd(DigitRun(u), Drop(u, Len(DigitRun(u)) + 1))

ToNumber(value) ==
  IF Trim(value) = << >> THEN [nan |-> FALSE, neg |-> FALSE, num |-> 0, den |-> 1]
  ELSE IF IsDecimalLiteral(Unsigned(Trim(value))) THEN ParseSigned(Trim(value))
  ELSE NaN

(***************************************************************************)
(* Dates.  Date.parse on the date-only form YYYY-MM-DD of the date-time    *)
(* string format: the time value, here in days, or NaN.  Strings outside   *)
(* the format are read by rules each engine chooses; the strings of this   *)
(* model that are outside it are refused by every engine.                  *)
(***************************************************************************)
IsIsoShaped(s) ==
  /\ Len(s) = 10
  /\ s[5] = "-" /\ s[8] = "-"
  /\ \A i \in {1, 2, 3, 4, 6, 7, 9, 10} : s[i] \in Digits

YearOf(s) == DigitsToNat(SubSeq(s, 1, 4), 0)
MonthOf(s) == DigitsToNat(SubSeq(s, 6, 7), 0)
DayOf(s) == DigitsToNat(SubSeq(s, 9, 10), 0)

IsLeapYear(y) == (y % 4 = 0 /\ y % 100 # 0) \/ y % 400 = 0

DaysInMonth(y, m) ==
  CASE m = 2 -> IF IsLeapYear(y) THEN 29 ELSE 28
    [] m \in {4, 6, 9, 11} -> 30
    [] OTHER -> 31

RECURSIVE DaysBeforeMonth(_, _)
DaysBeforeMonth(y, m) ==
  IF m <= 1 THEN 0 ELSE DaysBeforeMonth(y, m - 1) + DaysInMonth(y, m - 1)

\* days from the start of year 0 to the start of year y
DaysBeforeYear(y) ==
  IF y = 0 THEN 0
  ELSE 365 * y + ((y - 1) \div 4) - ((y - 1) \div 100) + ((y - 1) \div 400) + 1

NotADate == [nan |-> TRUE, day |-> 0]

DayNumber(y, m, d) ==
  IF m \in 1..12 /\ d \in 1..DaysInMonth(y, m)
  THEN [nan |-> FALSE, day |-> DaysBeforeYear(y) + DaysBeforeMonth(y, m) + d]
  ELSE NotADate

DateParse(s) ==
  IF IsIsoShaped(s) THEN DayNumber(YearOf(s), MonthOf(s), DayOf(s)) ELSE NotADate

(***************************************************************************)
(* Bounds of the model                                                     *)
(***************************************************************************)
\* pending setTimeout callbacks
MaxTimers == 2
\* item rows of one list editor
MaxItems == 3
\* edit sessions (calls of enterEditMode that open an editor) in one run
MaxSessions == 2

(***************************************************************************)
(* The grid: options (entities), the editable cells of each row in their   *)
(* left-to-right order, the field types and the loaded baseline data.      *)
(***************************************************************************)
Options == {"o1", "o2"}

\* `${this.optionId}::${this.fieldKey}`
CellKey(opt, field) == << opt, field >>

\* element.dataset.fieldType
FieldType(field) ==
  CASE field \in {"packagePrice", "flightsTotal"} -> "price"
    [] field = "guests"                           -> "number"
    [] field \in {"startDate", "endDate"}         -> "date"
    [] field = "notes"                            -> "text"
    [] OTHER                                      -> "list"

\* const listFields = ['inclusions', 'exclusions', 'itinerary']
ListFields == {"inclusions", "exclusions", "itinerary"}

IsListEditor(c) == c[2] \in ListFields

\* AppState.loadedOptions: the baseline of each option.  grandTotal is the
\* value stored with the option when it was loaded.
BaselineFields ==
  {"packagePrice", "flightsTotal", "prePostHotelsTotal", "additionalCosts", "guests",
   "inclusions", "itinerary", "startDate", "endDate", "notes"}

LoadedOptions ==
  [o \in Options |->
     IF o = "o1"
     THEN [vals |-> [f \in BaselineFields |->
                       CASE f = "packagePrice" -> << "4", "0", "0", "0" >>
                         [] f = "flightsTotal" -> << "1", "0", "0", "0" >>
                         [] f = "guests"       -> << "2" >>
                         [] f = "inclusions"   -> << "A", ",", " ", "B" >>
                         [] f = "itinerary"    -> << "A" >>
                         [] f = "startDate"    -> << "2", "0", "2", "5", "-", "0", "1", "-", "1", "0" >>
                         [] f = "endDate"      -> << "2", "0", "2", "5", "-", "0", "1", "-", "1", "7" >>
                         [] f = "notes"        -> << "x" >>
                         [] OTHER              -> << "0" >>],
           grandTotal |-> 5000]
     ELSE [vals |-> [f \in BaselineFields |->
                       CASE f = "packagePrice" -> << "5", "0", "0", "0" >>
                         [] f = "guests"       -> << "1" >>
                         [] f = "inclusions"   -> << >>
                         [] f = "itinerary"    -> << >>
                         [] f = "startDate"    -> << >>
                         [] f = "endDate"      -> << >>
                         [] f = "notes"        -> << >>
                         [] OTHER              -> << "0" >>],
           grandTotal |-> 5000]]

\* element.dataset.originalValue as the host renders it from the baseline
DatasetOriginalValue(c) == LoadedOptions[c[1]].vals[c[2]]

\* What the user can type into a plain editor.  An <input type=number> hands
\* the script either the empty string or a well-formed number.
TypedValues(type) ==
  CASE type = "price" ->
         { << >>, << "4", "0", "0", "0" >>, << "5", "0", "0", "0" >>,
           << "4", "0", "0", "0", ".", "0" >>, << "-", "5" >> }
    [] type = "date" ->
         { << >>, << "2", "0", "2", "5", "-", "0", "1", "-", "1", "2" >> }
    [] type = "text" -> { << >>, << "y" >> }
    [] OTHER -> { << "2" >>, << "4" >>, << "-", "1" >> }

\* What an editor hands the script where the browser does not know the input
\* type: the input is a text input then and its value is any string.
RawValues(type) ==
  CASE type \in {"price", "number"} -> { << "5", "x" >>, << "a", "b", "c" >> }
    [] type = "date" ->
         { << "a", "b", "c" >>, << "2", "0", "2", "5", "-", "1", "3", "-", "0", "1" >> }
    [] OTHER -> { }

\* What the user can type into an item row or the add-new input of a list editor.
TypedItems == { << >>, << "C" >>, << " ", "C" >> }

(***************************************************************************)
(* Rendered content of a cell element (innerHTML).                         *)
(*   k = "view"   formatted display: f names the format                    *)
(*   k = "input"  the plain editor input created by enterEditMode          *)
(*   k = "list"   the list editor container                                *)
(*   k = "markup" elements rebuilt from a saved HTML string: same markup,  *)
(*                no listeners (f names the editor the markup came from)   *)
(***************************************************************************)
Html(k, f, s, n, items) == [k |-> k, f |-> f, s |-> s, n |-> n, items |-> items]

NotSpecified == Html("view", "empty", << >>, 0, << >>)

\* element.innerHTML read: the markup of what is rendered
InnerHTML(h) ==
  IF h.k \in {"input", "list"} THEN Html("markup", h.k, << >>, 0, << >>) ELSE h

\* Math.round(Number(value)), as formatPrice and the calculated fields use it:
\* the empty string is 0, a string that is no number counts 0 ('$0').
Rounded(p) ==
  IF p.nan THEN 0
  ELSE IF p.neg THEN 0 - ((2 * p.num + p.den) \div (2 * p.den))
  ELSE (2 * p.num + p.den) \div (2 * p.den)

RoundedNumber(s) == Rounded(ToNumber(s))

(***************************************************************************)
(* Pure functions of EditableCell                                          *)
(***************************************************************************)
\* variant of Validate: a date cell must hold a date, the empty string is refused
ValidateDateRequired(type, value) ==
  CASE type = "date" -> ~DateParse(value).nan
    [] type \in {"price", "number"} ->
         IF value = << >> THEN TRUE ELSE GeqZero(ParseFloat(value))
    [] OTHER -> TRUE

\* validate(value)
Validate(type, value) ==
  CASE type = "date" ->
         IF value = << >> THEN TRUE ELSE ~DateParse(value).nan
    [] type \in {"price", "number"} ->
         IF value = << >> THEN TRUE ELSE GeqZero(ParseFloat(value))
    [] OTHER -> TRUE

\* formatDisplay(value)
FormatDisplay(c, value) ==
  IF value = << >> THEN NotSpecified
  ELSE CASE FieldType(c[2]) = "date"  -> Html("view", "date", value, 0, << >>)
         [] FieldType(c[2]) = "price" -> Html("view", "price", << >>, RoundedNumber(value), << >>)
         [] FieldType(c[2]) = "number" -> Html("view", "text", value, 0, << >>)
         [] OTHER ->
              IF c[2] \in ListFields /\ IncludesComma(value)
                 /\ Len(TrimFilter(Split(value))) > 1
              THEN Html("view", "ul", << >>, 0, TrimFilter(Split(value)))
              ELSE Html("view", "text", value, 0, << >>)

\* value.replace(/[^0-9.-]/g, '')
RECURSIVE StripFormatting(_)
StripFormatting(s) ==
  IF s = << >> THEN << >>
  ELSE IF Head(s) \in Digits \cup {".", "-"}
       THEN << Head(s) >> \o StripFormatting(Tail(s))
       ELSE StripFormatting(Tail(s))

\* createInput(): the value the plain editor is pre-filled with
InputPrefill(c, currentValue) ==
  CASE FieldType(c[2]) = "price" ->
         IF StripFormatting(currentValue) = << >> THEN << "0" >>
         ELSE StripFormatting(currentValue)
    [] FieldType(c[2]) = "number" ->
         IF currentValue = << >> THEN << "0" >> ELSE currentValue
    [] OTHER -> currentValue

\* variant of CurrentItems: the pieces are not trimmed
CurrentItemsUntrimmed(currentValue) ==
  IF currentValue = << >> THEN << >> ELSE Split(currentValue)

\* createListEditor(): the items the list editor is seeded with
CurrentItems(currentValue) ==
  IF currentValue = << >> THEN << >> ELSE TrimFilter(Split(currentValue))

\* numeric equality: both strings parse and denote the same number
EqualNumbers(a, b) ==
  /\ ~a.nan /\ ~b.nan
  /\ a.num * b.den = b.num * a.den
  /\ (a.neg = b.neg \/ a.num = 0)

\* variant of HasChanged: a comparison of the numbers the two strings denote
HasChangedNumeric(newValue, originalValue) ==
  /\ newValue # originalValue
  /\ ~EqualNumbers(ParseFloat(newValue), ParseFloat(originalValue))

\* saveValue: const hasChanged = newValue !== this.originalValue
HasChanged(newValue, originalValue) == newValue # originalValue

(***************************************************************************)
(* Calculated fields.  COMPARISON_FIELDS is supplied by the host tool; the *)
(* calculate functions follow the dependency table of the specification.  *)
(***************************************************************************)
CalcFields == {"grandTotal", "pricePerPerson", "duration"}

GrandTotalCalc(w) ==
  RoundedNumber(w.vals["packagePrice"]) + RoundedNumber(w.vals["flightsTotal"])
    + RoundedNumber(w.vals["prePostHotelsTotal"]) + RoundedNumber(w.vals["additionalCosts"])

\* total / guests, rounded; 0 when either is missing
PerPerson(total, g) ==
  IF g <= 0 THEN 0 ELSE (2 * total + g) \div (2 * g)

PricePerPersonCalc(w) == PerPerson(w.grandTotal, RoundedNumber(w.vals["guests"]))

\* the duration is not available without both dates
DurationNA == 0 - 1

\* the days from startDate to endDate
DaysBetween(a, b) == IF a.nan \/ b.nan THEN DurationNA ELSE b.day - a.day

DurationCalc(w) == DaysBetween(DateParse(w.vals["startDate"]), DateParse(w.vals["endDate"]))

Calculate(fieldKey, w) ==
  CASE fieldKey = "grandTotal"     -> GrandTotalCalc(w)
    [] fieldKey = "pricePerPerson" -> PricePerPersonCalc(w)
    [] OTHER                       -> DurationCalc(w)

(***************************************************************************)
(* State                                                                   *)
(***************************************************************************)
VARIABLES
  grid,          \* the table: the editable cells of each option's row, left to right
  editMode,      \* AppState.editMode
  changes,       \* AppState.changes: Map cellKey -> new value
  originalData,  \* AppState.originalData: Map cellKey -> original value
  changeCount,   \* text of the #changeCount element
  cell,          \* editableCells: the EditableCell object of each key
  el,            \* the cell elements: innerHTML and the classes changed, editing
  input,         \* value of the plain editor input of each cell
  rows,          \* item rows of each list editor: input value and data-index
  newInput,      \* value of the add-new-item input of each list editor
  focus,         \* the cell whose editor holds the keyboard focus
  timers,        \* pending setTimeout callbacks, in the order they were set
  calc,          \* rendered content of the calculated cells
  toast,         \* notification shown by the last handler
  sessions,      \* edit sessions opened so far
  last,          \* what the last handler did: the operation, its cell and value
  loadedOptions, \* AppState.loadedOptions: the options as they were loaded
  event          \* the event the last handler served: its name and its cell

vars == << grid, editMode, changes, originalData, changeCount, cell, el, input, rows,
           newInput, focus, timers, calc, toast, sessions, last, event,
           loadedOptions >>

\* row.querySelectorAll('.editable-cell'), in document order
RowCells(opt) == grid[opt]

\* document.querySelectorAll('.editable-cell')
Cells == UNION { { CellKey(o, grid[o][i]) : i \in 1..Len(grid[o]) } : o \in Options }

NoFocus == << "none", "none" >>
NoHtml == Html("none", "none", << >>, 0, << >>)
NoToast == "none"

\* op: "activate" (enterEditMode opened an editor), "commit" (saveValue took a
\* valid value), "reject" (saveValue refused the value), "cancel" (cancelEdit
\* restored the display), "setup" (setupEditableCells), "none" otherwise;
\* had: whether AppState.changes held the cell's key before the operation
Op(op, c, value, had) == [op |-> op, cell |-> c, value |-> value, had |-> had]
NoOp == Op("none", << "none", "none" >>, << >>, FALSE)

\* the state as one record, so that handlers compose as functions
St ==
  [editMode |-> editMode, changes |-> changes, originalData |-> originalData,
   changeCount |-> changeCount, cell |-> cell, el |-> el, input |-> input,
   rows |-> rows, newInput |-> newInput, focus |-> focus, timers |-> timers,
   calc |-> calc, toast |-> toast, sessions |-> sessions, last |-> last,
   event |-> event, loadedOptions |-> loadedOptions]

\* name: "click", "Enter", "Tab", "Shift+Tab", "Escape" on a plain editor,
\* "blur" and "nav" for the two setTimeout callbacks, "rowEnter", "add",
\* "delete", "done", "cancel" inside a list editor, "none" for anything else
Event(name, c) == [name |-> name, cell |-> c]
NoEvent == Event("none", << "none", "none" >>)

\* a handler starts with no notification shown by it
Start == [St EXCEPT !.toast = NoToast, !.last = NoOp, !.event = NoEvent]

\* the handler of the event name on cell c starts
On(name, c) == [Start EXCEPT !.event = Event(name, c)]

Becomes(st) ==
  /\ Len(st.timers) <= MaxTimers
  /\ st.sessions <= MaxSessions
  /\ grid' = grid
  /\ sessions' = st.sessions
  /\ last' = st.last
  /\ event' = st.event
  /\ loadedOptions' = st.loadedOptions
  /\ editMode' = st.editMode
  /\ changes' = st.changes
  /\ originalData' = st.originalData
  /\ changeCount' = st.changeCount
  /\ cell' = st.cell
  /\ el' = st.el
  /\ input' = st.input
  /\ rows' = st.rows
  /\ newInput' = st.newInput
  /\ focus' = st.focus
  /\ timers' = st.timers
  /\ calc' = st.calc
  /\ toast' = st.toast

\* Map.has / Map.set / Map.delete on a function with a finite domain
Has(m, k) == k \in DOMAIN m
MapSet(m, k, v) == [x \in DOMAIN m \cup {k} |-> IF x = k THEN v ELSE m[x]]
MapDelete(m, k) == [x \in DOMAIN m \ {k} |-> m[x]]
EmptyMap == [x \in {} |-> << >>]

(***************************************************************************)
(* Timers.  setTimeout callbacks run in the order of their expiry: a       *)
(* callback may run once no callback set before it with the same or a      *)
(* shorter delay is still pending.                                         *)
(***************************************************************************)
BlurDelay == 100
NavDelay == 50

Delay(t) == IF t.kind = "blur" THEN BlurDelay ELSE NavDelay

CanFire(ts, i) == \A j \in 1..(i - 1) : Delay(ts[j]) > Delay(ts[i])

RemoveAt(seq, i) == SubSeq(seq, 1, i - 1) \o SubSeq(seq, i + 1, Len(seq))

\* A blur callback closes over the input element of its session and reads
\* input.value when it runs.  While the element is the cell's editor the
\* value is input[c]; once the element is removed its value is frozen.
BlurTimer(c) == [kind |-> "blur", cell |-> c, live |-> TRUE, val |-> << >>]
NavTimer(c) == [kind |-> "nav", cell |-> c, live |-> FALSE, val |-> << >>]

FreezeTimers(ts, c, v) ==
  [i \in 1..Len(ts) |->
     IF ts[i].kind = "blur" /\ ts[i].cell = c /\ ts[i].live
     THEN [ts[i] EXCEPT !.live = FALSE, !.val = v]
     ELSE ts[i]]

(***************************************************************************)
(* DOM helpers                                                             *)
(***************************************************************************)
\* element.innerHTML = h: the editor elements of the cell, if any, leave the
\* document (the focus goes with them) and the new content is rendered.
SetInnerHTML(st, c, h) ==
  [st EXCEPT !.el[c].html = h,
             !.timers = FreezeTimers(st.timers, c, st.input[c]),
             !.input[c] = << >>,
             !.rows[c] = << >>,
             !.newInput[c] = << >>,
             !.focus = IF st.focus = c THEN NoFocus ELSE st.focus]

\* The focus leaves the element that holds it: a plain editor input runs its
\* blur listener, which sets the settle-delay callback (lines 79-86).
BlurFocused(st) ==
  IF st.focus # NoFocus /\ st.el[st.focus].html.k = "input"
  THEN [st EXCEPT !.timers = Append(st.timers, BlurTimer(st.focus)), !.focus = NoFocus]
  ELSE [st EXCEPT !.focus = NoFocus]

\* element.focus() on the editor of cell c
FocusEditor(st, c) ==
  IF st.focus = c THEN st ELSE [BlurFocused(st) EXCEPT !.focus = c]

(***************************************************************************)
(* updateDependentFields / updateCalculatedCell                            *)
(***************************************************************************)
\* variant of WorkingOption: the entries of every option are applied
WorkingOptionAllEntities(st, opt) ==
  [st.loadedOptions[opt] EXCEPT
     !.vals = [f \in BaselineFields |->
                 IF \E o \in Options : Has(st.changes, CellKey(o, f))
                 THEN st.changes[CellKey(CHOOSE o \in Options :
                                           /\ Has(st.changes, CellKey(o, f))
                                           /\ \/ o # opt
                                              \/ \A p \in Options \ {opt} :
                                                   ~Has(st.changes, CellKey(p, f)),
                                         f)]
                 ELSE st.loadedOptions[opt].vals[f]]]

\* const workingOption = { ...option } with the changes of this option applied
WorkingOption(st, opt) ==
  [st.loadedOptions[opt] EXCEPT
     !.vals = [f \in BaselineFields |->
                 IF Has(st.changes, CellKey(opt, f)) THEN st.changes[CellKey(opt, f)]
                 ELSE st.loadedOptions[opt].vals[f]]]

PricingFields == {"packagePrice", "flightsPrice", "guests"}
DateFields == {"startDate", "endDate"}

\* variant of UpdateCalculatedCell: the calculated field is tracked as a change
UpdateCalculatedCellTracked(st, opt, fieldKey, w) ==
  [st EXCEPT !.calc[<< opt, fieldKey >>] = Calculate(fieldKey, w),
             !.changes = MapSet(st.changes, << opt, fieldKey >>, << >>)]

\* updateCalculatedCell(fieldKey, workingOption)
UpdateCalculatedCell(st, opt, fieldKey, w) ==
  [st EXCEPT !.calc[<< opt, fieldKey >>] = Calculate(fieldKey, w)]

\* workingOption.grandTotal = grandTotalField.calculate(workingOption)
WithGrandTotal(w) == [w EXCEPT !.grandTotal = GrandTotalCalc(w)]

\* lines 531-542: grandTotal was recomputed into w; show it and pricePerPerson
UpdatePricing(st, c, w) ==
  IF c[2] \in PricingFields
  THEN UpdateCalculatedCell(UpdateCalculatedCell(st, c[1], "grandTotal", w),
                            c[1], "pricePerPerson", w)
  ELSE st

\* lines 544-547
UpdateDuration(st, c, w) ==
  IF c[2] \in DateFields THEN UpdateCalculatedCell(st, c[1], "duration", w) ELSE st

\* lines 549-552
UpdateForGuests(st, c, w) ==
  IF c[2] = "guests" THEN UpdateCalculatedCell(st, c[1], "pricePerPerson", w) ELSE st

UpdateWith(st, c, w) == UpdateForGuests(UpdateDuration(UpdatePricing(st, c, w), c, w), c, w)

\* variant of PricedWorkingOption: grandTotal is not written into the working copy
StaleWorkingOption(c, w0) == w0

\* lines 531-536: the working copy the calculated cells are computed from
PricedWorkingOption(c, w0) ==
  IF c[2] \in PricingFields THEN WithGrandTotal(w0) ELSE w0

\* variant of UpdateDependentFields: the loaded option itself is worked on
UpdateDependentFieldsInPlace(st, c) ==
  UpdateWith([st EXCEPT !.loadedOptions[c[1]] =
                PricedWorkingOption(c, WorkingOption(st, c[1]))],
             c, PricedWorkingOption(c, WorkingOption(st, c[1])))

UpdateDependentFields(st, c) ==
  UpdateWith(st, c, PricedWorkingOption(c, WorkingOption(st, c[1])))

(***************************************************************************)
(* enterEditMode, cancelEdit, saveValue, moveToNextCell                    *)
(***************************************************************************)
ItemRows(items) == [i \in 1..Len(items) |-> [value |-> items[i], index |-> i - 1]]

\* lines 49-53: the session opens and the display is saved for cancel
OpenSession(st, c) ==
  [st EXCEPT !.cell[c].isEditing = TRUE,
             !.cell[c].originalDisplayHTML = InnerHTML(st.el[c].html),
             !.sessions = st.sessions + 1,
             !.last = Op("activate", c, << >>, Has(st.changes, c))]

\* createListEditor(), lines 182-204, appended to the emptied cell
ShowListEditor(st, c, items) ==
  [st EXCEPT !.cell[c].listItems = items,
             !.rows[c] = ItemRows(items),
             !.newInput[c] = << >>,
             !.el[c].html = Html("list", "list", << >>, 0, << >>),
             !.el[c].editing = TRUE]

\* createInput(), lines 118-178, appended to the emptied cell
ShowInput(st, c) ==
  [st EXCEPT !.input[c] = InputPrefill(c, st.cell[c].currentValue),
             !.el[c].html = Html("input", "input", << >>, 0, << >>),
             !.el[c].editing = TRUE]

\* lines 55-76: this.element.innerHTML = '', the editor, the focus
ShowEditor(st, c) ==
  IF IsListEditor(c)
  THEN FocusEditor(ShowListEditor(st, c, CurrentItems(st.cell[c].currentValue)), c)
  ELSE FocusEditor(ShowInput(st, c), c)

EnterEditMode(st, c) ==
  IF st.cell[c].isEditing THEN st
  ELSE ShowEditor(SetInnerHTML(OpenSession(st, c), c, NoHtml), c)

\* variant of CancelEdit: the saved display is not put back
CancelEditKeepsEditor(st, c) ==
  IF ~st.cell[c].isEditing THEN st
  ELSE [st EXCEPT !.cell[c].isEditing = FALSE, !.el[c].editing = FALSE,
                  !.last = Op("cancel", c, << >>, Has(st.changes, c))]

CancelEdit(st, c) ==
  IF ~st.cell[c].isEditing THEN st
  ELSE SetInnerHTML([st EXCEPT !.cell[c].isEditing = FALSE, !.el[c].editing = FALSE,
                               !.last = Op("cancel", c, << >>, Has(st.changes, c))],
                    c, st.cell[c].originalDisplayHTML)

\* updateChangeCount()
UpdateChangeCount(st) == [st EXCEPT !.changeCount = Cardinality(DOMAIN st.changes)]

\* variant of TrackChange: a revert leaves the original-value anchor behind
TrackChangeKeepsAnchor(st, c, newValue) ==
  IF HasChanged(newValue, st.cell[c].originalValue)
  THEN [st EXCEPT !.changes = MapSet(st.changes, c, newValue),
                  !.originalData = IF Has(st.originalData, c) THEN st.originalData
                                   ELSE MapSet(st.originalData, c, st.cell[c].originalValue),
                  !.el[c].changed = TRUE]
  ELSE [st EXCEPT !.changes = MapDelete(st.changes, c),
                  !.el[c].changed = FALSE]

\* variant of TrackChange: a change replaces the whole map
TrackChangeReplacesMap(st, c, newValue) ==
  IF HasChanged(newValue, st.cell[c].originalValue)
  THEN [st EXCEPT !.changes = MapSet(EmptyMap, c, newValue),
                  !.originalData = IF Has(st.originalData, c) THEN st.originalData
                                   ELSE MapSet(st.originalData, c, st.cell[c].originalValue),
                  !.el[c].changed = TRUE]
  ELSE [st EXCEPT !.changes = MapDelete(st.changes, c),
                  !.originalData = MapDelete(st.originalData, c),
                  !.el[c].changed = FALSE]

\* variant of TrackChange: every change records the value it replaces as anchor
TrackChangeOverwritesAnchor(st, c, newValue) ==
  IF HasChanged(newValue, st.cell[c].originalValue)
  THEN [st EXCEPT !.changes = MapSet(st.changes, c, newValue),
                  !.originalData = MapSet(st.originalData, c,
                                          IF Has(st.changes, c) THEN st.changes[c]
                                          ELSE st.cell[c].originalValue),
                  !.el[c].changed = TRUE]
  ELSE [st EXCEPT !.changes = MapDelete(st.changes, c),
                  !.originalData = MapDelete(st.originalData, c),
                  !.el[c].changed = FALSE]

\* saveValue, lines 390-406: track the change or remove it from tracking
TrackChange(st, c, newValue) ==
  IF HasChanged(newValue, st.cell[c].originalValue)
  THEN [st EXCEPT !.changes = MapSet(st.changes, c, newValue),
                  !.originalData = IF Has(st.originalData, c) THEN st.originalData
                                   ELSE MapSet(st.originalData, c, st.cell[c].originalValue),
                  !.el[c].changed = TRUE]
  ELSE [st EXCEPT !.changes = MapDelete(st.changes, c),
                  !.originalData = MapDelete(st.originalData, c),
                  !.el[c].changed = FALSE]

\* saveValue, lines 380-385: the rejection of an invalid value
RejectInvalid(st, c, newValue) ==
  CancelEdit([st EXCEPT !.toast = "error",
                        !.last = Op("reject", c, newValue, Has(st.changes, c))], c)

\* saveValue, lines 374-378
CloseSession(st, c) ==
  [st EXCEPT !.cell[c].isEditing = FALSE, !.el[c].editing = FALSE]

\* saveValue, lines 387-388: this.currentValue = newValue
StoreValue(st, c, newValue) ==
  [st EXCEPT !.cell[c].currentValue = newValue,
             !.last = Op("commit", c, newValue, Has(st.changes, c))]

\* saveValue, lines 387-415: the valid value takes effect
AcceptValid(st, c, newValue) ==
  UpdateDependentFields(
    UpdateChangeCount(
      SetInnerHTML(TrackChange(StoreValue(st, c, newValue), c, newValue),
                   c, FormatDisplay(c, newValue))),
    c)

\* variant of ValidateAndStore: the value is stored before it is validated
StoreThenValidate(st, c, newValue) ==
  IF ~Validate(FieldType(c[2]), newValue)
  THEN RejectInvalid([st EXCEPT !.cell[c].currentValue = newValue], c, newValue)
  ELSE AcceptValid(st, c, newValue)

\* saveValue, lines 380-415, once the session is closed
ValidateAndStore(st, c, newValue) ==
  IF ~Validate(FieldType(c[2]), newValue)
  THEN RejectInvalid(st, c, newValue)
  ELSE AcceptValid(st, c, newValue)

SaveValue(st, c, newValue) ==
  IF ~st.cell[c].isEditing THEN st
  ELSE ValidateAndStore(CloseSession(st, c), c, newValue)

\* index of the cell in its row, 0 when it is not there
IndexIn(r, field) ==
  IF \E i \in 1..Len(r) : r[i] = field
  THEN CHOOSE i \in 1..Len(r) : r[i] = field
  ELSE 0

RowIndex(c) == IndexIn(RowCells(c[1]), c[2])

\* variant of ClickLater: the cell at nextIndex is clicked within the handler
ClickAtOnce(st, opt, r, nextIndex) ==
  IF nextIndex < 1 \/ nextIndex > Len(r) THEN st
  ELSE IF st.editMode /\ ~st.cell[CellKey(opt, r[nextIndex])].isEditing
       THEN EnterEditMode(st, CellKey(opt, r[nextIndex]))
       ELSE st

\* variant of ClickLater: past an end of the row the other end is taken
ClickLaterWraps(st, opt, r, nextIndex) ==
  [st EXCEPT !.timers =
     Append(st.timers, NavTimer(CellKey(opt, r[((nextIndex - 1) % Len(r)) + 1])))]

\* lines 503-510: the deferred click on the cell at nextIndex, if the row has one
ClickLater(st, opt, r, nextIndex) ==
  IF nextIndex < 1 \/ nextIndex > Len(r) THEN st
  ELSE [st EXCEPT !.timers = Append(st.timers, NavTimer(CellKey(opt, r[nextIndex])))]

\* lines 485-499
MoveFrom(st, c, currentIndex, reverse) ==
  IF currentIndex = 0 THEN st
  ELSE ClickLater(st, c[1], RowCells(c[1]),
                  IF reverse THEN currentIndex - 1 ELSE currentIndex + 1)

MoveToNextCell(st, c, reverse) == MoveFrom(st, c, RowIndex(c), reverse)

(***************************************************************************)
(* List editor                                                             *)
(***************************************************************************)
\* this.listItems[idx] = v (an index past the end extends the array with holes,
\* which join() and trim() see as empty)
ArraySet(arr, idx, v) ==
  [i \in 1..(IF idx + 1 > Len(arr) THEN idx + 1 ELSE Len(arr)) |->
     IF i = idx + 1 THEN v ELSE IF i <= Len(arr) THEN arr[i] ELSE << >>]

\* this.listItems.splice(index, 1)
Splice(arr, index) ==
  IF index + 1 > Len(arr) THEN arr ELSE RemoveAt(arr, index + 1)

\* the input listener of an item row, lines 298-301
ListItemInput(st, c, i, v) ==
  [st EXCEPT !.rows[c][i].value = v,
             !.cell[c].listItems = ArraySet(st.cell[c].listItems, st.rows[c][i].index, v)]

\* addListItem(value)
PushItem(st, c, trimmed) ==
  [st EXCEPT !.cell[c].listItems = Append(st.cell[c].listItems, trimmed),
             !.rows[c] = Append(st.rows[c],
                                [value |-> trimmed, index |-> Len(st.cell[c].listItems)])]

\* variant of AddListItem: adding an item also asks for the previous cell
AddListItemAndMove(st, c, value) ==
  MoveToNextCell(IF Trim(value) = << >> THEN st ELSE PushItem(st, c, Trim(value)),
                 c, TRUE)

AddListItem(st, c, value) ==
  IF Trim(value) = << >> THEN st ELSE PushItem(st, c, Trim(value))

\* removeListItem, lines 349-356: all rows are rendered again from listItems
RenderItems(st, c, items) ==
  [st EXCEPT !.cell[c].listItems = items, !.rows[c] = ItemRows(items)]

\* variant of RemoveListItem: the row is taken out, the other rows are kept
RemoveListItemKeepRows(st, c, index) ==
  [st EXCEPT !.cell[c].listItems = Splice(st.cell[c].listItems, index),
             !.rows[c] = SelectSeq(st.rows[c], LAMBDA r : r.index # index)]

\* removeListItem(index)
RemoveListItem(st, c, index) == RenderItems(st, c, Splice(st.cell[c].listItems, index))

\* Array.from(inputs).map(input => input.value.trim()).filter(v => v)
CollectRows(rs) == TrimFilter([i \in 1..Len(rs) |-> rs[i].value])

\* saveListValue()
SaveItems(st, c, items) ==
  SaveValue([st EXCEPT !.cell[c].listItems = items], c, Join(items))

\* variant of SaveListValue: the text in the add-new input is taken as an item
SaveListValueWithPending(st, c) ==
  SaveItems(st, c, CollectRows(st.rows[c]) \o TrimFilter(<< st.newInput[c] >>))

SaveListValue(st, c) == SaveItems(st, c, CollectRows(st.rows[c]))

(***************************************************************************)
(* Initial state: the host has rendered the table from the loaded options  *)
(* and setupEditableCells() has run, with no change recorded.              *)
(***************************************************************************)
\* variant of NewCell: the recorded change is not read back
NewCellFromOriginal(chg, c) ==
  [originalValue |-> DatasetOriginalValue(c),
   currentValue |-> DatasetOriginalValue(c),
   isEditing |-> FALSE,
   originalDisplayHTML |-> Html("none", "none", << >>, 0, << >>),
   listItems |-> << >>]

\* new EditableCell(element), lines 17-37
NewCell(chg, c) ==
  [originalValue |-> DatasetOriginalValue(c),
   currentValue |-> IF Has(chg, c) THEN chg[c] ELSE DatasetOriginalValue(c),
   isEditing |-> FALSE,
   originalDisplayHTML |-> NoHtml,
   listItems |-> << >>]

\* the cell element as the host renders it: the value in force, no class set
HostRender(chg, c) ==
  [html |-> FormatDisplay(c, IF Has(chg, c) THEN chg[c] ELSE DatasetOriginalValue(c)),
   changed |-> FALSE,
   editing |-> FALSE]

\* variant of MarkElement: the class is not added
MarkElementNever(chg, c) == HostRender(chg, c)

\* constructor, lines 30-34: this.element.classList.add('changed')
MarkElement(chg, c) ==
  [HostRender(chg, c) EXCEPT !.changed = Has(chg, c)]

CalcCells == { << o, f >> : o \in Options, f \in CalcFields }

InitGrid(g) ==
  /\ grid = g
  /\ editMode = FALSE
  /\ changes = EmptyMap
  /\ originalData = EmptyMap
  /\ changeCount = 0
  /\ cell = [c \in Cells |-> NewCell(EmptyMap, c)]
  /\ el = [c \in Cells |-> MarkElement(EmptyMap, c)]
  /\ input = [c \in Cells |-> << >>]
  /\ rows = [c \in Cells |-> << >>]
  /\ newInput = [c \in Cells |-> << >>]
  /\ focus = NoFocus
  /\ timers = << >>
  /\ calc = [k \in CalcCells |-> Calculate(k[2], LoadedOptions[k[1]])]
  /\ toast = NoToast
  /\ sessions = 0
  /\ last = NoOp
  /\ event = NoEvent
  /\ loadedOptions = LoadedOptions

(***************************************************************************)
(* Events                                                                  *)
(***************************************************************************)
\* the host's edit-mode switch
ToggleEditMode == Becomes([Start EXCEPT !.editMode = ~editMode])

\* variant of ClickHandler: the edit-mode flag is not looked at
ClickHandlerAnyMode(st, c) ==
  IF ~st.cell[c].isEditing THEN EnterEditMode(st, c) ELSE st

\* the click listener of the cell element, lines 40-45
ClickHandler(st, c) ==
  IF st.editMode /\ ~st.cell[c].isEditing THEN EnterEditMode(st, c) ELSE st

\* The user clicks cell c.  The mouse press moves the focus: into the editor
\* shown in the cell, or away from whatever editor held it.  Then the click
\* reaches the cell's listener.
MousePress(st, c) ==
  IF st.el[c].html.k \in {"input", "list"} THEN FocusEditor(st, c) ELSE BlurFocused(st)

Click(c) == Becomes(ClickHandler(MousePress(On("click", c), c), c))

\* The user clicks outside the cells: the focused editor loses the focus.
ClickAway ==
  /\ focus # NoFocus
  /\ Becomes(BlurFocused(Start))

\* The user types in the focused plain editor.
Type(c, v) ==
  /\ focus = c
  /\ el[c].html.k = "input"
  /\ v # input[c]
  /\ Becomes([Start EXCEPT !.input[c] = v])

\* The user types in the focused plain editor of a browser that gives it no
\* type of its own.
TypeRaw(c, v) ==
  /\ focus = c
  /\ el[c].html.k = "input"
  /\ v # input[c]
  /\ Becomes([Start EXCEPT !.input[c] = v])

\* keydown listener, lines 88-101
KeyEnter(c) ==
  /\ focus = c
  /\ el[c].html.k = "input"
  /\ Becomes(MoveToNextCell(SaveValue(On("Enter", c), c, input[c]), c, FALSE))

KeyTab(c, shiftKey) ==
  /\ focus = c
  /\ el[c].html.k = "input"
  /\ Becomes(MoveToNextCell(SaveValue(On(IF shiftKey THEN "Shift+Tab" ELSE "Tab", c),
                                       c, input[c]),
                             c, shiftKey))

KeyEscape(c) ==
  /\ focus = c
  /\ el[c].html.k = "input"
  /\ Becomes(CancelEdit(On("Escape", c), c))

\* variant of BlurCallback: the deferred callback does nothing
BlurCallbackNever(st, t) == st

\* the settle-delay callback of the blur listener, lines 81-85
BlurCallback(st, t) ==
  IF st.cell[t.cell].isEditing
  THEN SaveValue(st, t.cell, IF t.live THEN st.input[t.cell] ELSE t.val)
  ELSE st

BlurTimeout(i) ==
  /\ i \in 1..Len(timers)
  /\ timers[i].kind = "blur"
  /\ CanFire(timers, i)
  /\ Becomes(BlurCallback([On("blur", timers[i].cell) EXCEPT !.timers = RemoveAt(timers, i)],
                          timers[i]))

\* the deferred nextCell.click() of moveToNextCell, lines 506-509
NavTimeout(i) ==
  /\ i \in 1..Len(timers)
  /\ timers[i].kind = "nav"
  /\ CanFire(timers, i)
  /\ Becomes(ClickHandler([On("nav", timers[i].cell) EXCEPT !.timers = RemoveAt(timers, i)],
                          timers[i].cell))

\* list editor events
ListType(c, i, v) ==
  /\ focus = c
  /\ el[c].html.k = "list"
  /\ i \in 1..Len(rows[c])
  /\ v # rows[c][i].value
  /\ Becomes(ListItemInput(Start, c, i, v))

\* Enter in an item row, lines 304-312: the focus goes to the add-new input
ListRowEnter(c, i) ==
  /\ focus = c
  /\ el[c].html.k = "list"
  /\ i \in 1..Len(rows[c])
  /\ Becomes(FocusEditor(On("rowEnter", c), c))

NewInputType(c, v) ==
  /\ focus = c
  /\ el[c].html.k = "list"
  /\ v # newInput[c]
  /\ Becomes([Start EXCEPT !.newInput[c] = v])

\* Enter in the add-new input (lines 217-225) or the add button (lines 233-239)
AddItem(c) ==
  /\ focus = c
  /\ el[c].html.k = "list"
  /\ Len(rows[c]) < MaxItems
  /\ Becomes([AddListItem(On("add", c), c, newInput[c]) EXCEPT !.newInput[c] = << >>])

\* the delete button of row i, lines 319-323
DeleteItem(c, i) ==
  /\ focus = c
  /\ el[c].html.k = "list"
  /\ i \in 1..Len(rows[c])
  /\ Becomes(RemoveListItem(On("delete", c), c, rows[c][i].index))

\* the Done button, lines 253-257
Done(c) ==
  /\ focus = c
  /\ el[c].html.k = "list"
  /\ Becomes(SaveListValue(On("done", c), c))

\* the Cancel button, lines 263-267
CancelButton(c) ==
  /\ focus = c
  /\ el[c].html.k = "list"
  /\ Becomes(CancelEdit(On("cancel", c), c))

\* The host renders the table again and calls setupEditableCells(): every
\* cell object and element is replaced.  The host does so while the component
\* is idle: no edit session is open and no callback is pending.
SetupEditableCells ==
  /\ \A c \in Cells : ~cell[c].isEditing
  /\ timers = << >>
  /\ Becomes([Start EXCEPT !.cell = [c \in Cells |-> NewCell(changes, c)],
                           !.el = [c \in Cells |-> MarkElement(changes, c)],
                           !.rows = [c \in Cells |-> << >>],
                           !.newInput = [c \in Cells |-> << >>],
                           !.last = Op("setup", << "none", "none" >>, << >>, FALSE),
                           !.input = [c \in Cells |-> << >>],
                           !.focus = NoFocus])

\* events of the plain editors, the timers and the host
NextPlain ==
  \/ ToggleEditMode
  \/ \E c \in Cells : Click(c)
  \/ ClickAway
  \/ \E c \in Cells : \E v \in TypedValues(FieldType(c[2])) : Type(c, v)
  \/ \E c \in Cells : KeyEnter(c)
  \/ \E c \in Cells : \E shiftKey \in BOOLEAN : KeyTab(c, shiftKey)
  \/ \E c \in Cells : KeyEscape(c)
  \/ \E i \in 1..MaxTimers : BlurTimeout(i)
  \/ \E i \in 1..MaxTimers : NavTimeout(i)
  \/ SetupEditableCells

\* events of the list editor
NextList ==
  \/ \E c \in Cells : \E i \in 1..MaxItems : \E v \in TypedItems : ListType(c, i, v)
  \/ \E c \in Cells : \E i \in 1..MaxItems : ListRowEnter(c, i)
  \/ \E c \in Cells : \E v \in TypedItems : NewInputType(c, v)
  \/ \E c \in Cells : AddItem(c)
  \/ \E c \in Cells : \E i \in 1..MaxItems : DeleteItem(c, i)
  \/ \E c \in Cells : Done(c)
  \/ \E c \in Cells : CancelButton(c)

\* A table of plain cells: two cells in the row of o1, one in the row of o2.
PlainGrid == [o \in Options |->
                IF o = "o1" THEN << "packagePrice", "guests" >> ELSE << "packagePrice" >>]

\* A table with a list cell: a price cell and a list cell in the row of o1.
ListGrid == [o \in Options |->
               IF o = "o1" THEN << "packagePrice", "inclusions" >> ELSE << >>]

\* A table with a cell of each plain type: a date, a price and a text cell in
\* the row of o1, a number cell in the row of o2.
TypedGrid == [o \in Options |->
                IF o = "o1" THEN << "startDate", "flightsTotal", "notes" >>
                ELSE << "guests" >>]

\* editors without a type of their own
NextRaw == \E c \in Cells : \E v \in RawValues(FieldType(c[2])) : TypeRaw(c, v)

Init == InitGrid(PlainGrid)
Next == NextPlain
Spec == Init /\ [][Next]_vars

InitList == InitGrid(ListGrid)
NextWithList == NextPlain \/ NextList
SpecList == InitList /\ [][NextWithList]_vars

InitTyped == InitGrid(TypedGrid)
NextTyped == NextPlain \/ NextRaw
SpecTyped == InitTyped /\ [][NextTyped]_vars

\* A table of one list cell, and items typed with a comma in them.
CommaGrid == [o \in Options |-> IF o = "o1" THEN << "itinerary" >> ELSE << >>]

CommaItems == { << "C" >>, << "C", ",", "D" >> }

\* the events a table of one list cell can see
NextComma ==
  \/ ToggleEditMode
  \/ \E c \in Cells : Click(c)
  \/ ClickAway
  \/ SetupEditableCells
  \/ \E c \in Cells : \E i \in 1..MaxItems : \E v \in CommaItems : ListType(c, i, v)
  \/ \E c \in Cells : \E i \in 1..MaxItems : ListRowEnter(c, i)
  \/ \E c \in Cells : \E v \in CommaItems : NewInputType(c, v)
  \/ \E c \in Cells : AddItem(c)
  \/ \E c \in Cells : \E i \in 1..MaxItems : DeleteItem(c, i)
  \/ \E c \in Cells : Done(c)
  \/ \E c \in Cells : CancelButton(c)

InitComma == InitGrid(CommaGrid)
SpecComma == InitComma /\ [][NextComma]_vars

\* A table in which no cell has a neighbour in its row: moveToNextCell finds
\* no cell and nothing but blur callbacks is ever deferred.
SoloGrid == [o \in Options |->
               IF o = "o1" THEN << "packagePrice" >> ELSE << "guests" >>]

NextSolo ==
  \/ ToggleEditMode
  \/ \E c \in Cells : Click(c)
  \/ ClickAway
  \/ \E c \in Cells : \E v \in TypedValues(FieldType(c[2])) : Type(c, v)
  \/ \E c \in Cells : KeyEnter(c)
  \/ \E c \in Cells : \E shiftKey \in BOOLEAN : KeyTab(c, shiftKey)
  \/ \E c \in Cells : KeyEscape(c)
  \/ \E i \in 1..MaxTimers : BlurTimeout(i)
  \/ SetupEditableCells

\* a callback is pending.  In this table every timer is a blur callback, the
\* oldest one may run and running it takes it off the list: the timer step is
\* enabled exactly when a callback is pending.
TimerDue == timers # << >>

\* setTimeout: a callback that is due is run.  This is weak fairness of the
\* timer step, written out with the enabling condition of the step: the step
\* is disabled again and again, or it is taken again and again.
TimersRun ==
  \/ []<>(~TimerDue)
  \/ []<><<\E i \in 1..MaxTimers : BlurTimeout(i)>>_vars

InitSolo == InitGrid(SoloGrid)
SpecSolo == InitSolo /\ [][NextSolo]_vars /\ TimersRun

(***************************************************************************)
(* Properties                                                              *)
(***************************************************************************)
Editing == { c \in Cells : cell[c].isEditing }

Committed(c) == last.op = "commit" /\ last.cell = c
Rejected(c) == last.op = "reject" /\ last.cell = c

\* the data a cancelled or rejected edit must leave alone
DataUnchanged(c) ==
  /\ changes' = changes
  /\ originalData' = originalData
  /\ changeCount' = changeCount
  /\ cell'[c].currentValue = cell[c].currentValue
  /\ el'[c].changed = el[c].changed
  /\ calc' = calc

\* C1: in every reachable state at most one cell is Editing.
C1_AtMostOneEditing == Cardinality(Editing) <= 1

\* equality of two values under the rule the claim gives for the type: the
\* number denoted for number and price, the trimmed string for text and list
EqualUnderType(type, a, b) ==
  IF type \in {"number", "price"}
  THEN a = b \/ EqualNumbers(ParseFloat(a), ParseFloat(b))
  ELSE Trim(a) = Trim(b)

C3_RevertRemovesEntry ==
  [][\A c \in Cells :
       (last'.op = "commit" /\ last'.cell = c /\ last'.value = cell[c].originalValue)
       => /\ ~Has(changes', c)
          /\ ~Has(originalData', c)
          /\ ~el'[c].changed
          /\ DOMAIN changes' = DOMAIN changes \ {c}
          /\ (~Has(changes, c) => changes' = changes /\ originalData' = originalData)]_vars

\* the original value has been committed over an existing entry
C3_Witness ==
  \E c \in Cells :
    Committed(c) /\ last.value = cell[c].originalValue /\ last.had /\ ~Has(changes, c)

\* C4: a valid commit of a value different from the original creates or updates
\* exactly the entry of that cell with the committed value, sets the marker and
\* leaves every other entry alone; the size grows by one only for a new entry.
C4_ChangeWritesOneEntry ==
  [][\A c \in Cells :
       (last'.op = "commit" /\ last'.cell = c /\ last'.value # cell[c].originalValue)
       => /\ Has(changes', c)
          /\ changes'[c] = last'.value
          /\ el'[c].changed
          /\ DOMAIN changes' = DOMAIN changes \cup {c}
          /\ \A k \in DOMAIN changes \ {c} : changes'[k] = changes[k]
          /\ Cardinality(DOMAIN changes') =
               Cardinality(DOMAIN changes) + (IF Has(changes, c) THEN 0 ELSE 1)]_vars

\* an existing entry has been updated while another cell has an entry too
C4_Witness ==
  \E c \in Cells :
    /\ Committed(c) /\ last.value # cell[c].originalValue
    /\ Has(changes, c) /\ changes[c] = last.value
    /\ Cardinality(DOMAIN changes) = 2

\* C5: activate() then cancel() leaves the store, the current value, the marker
\* and the calculated cells as they were, puts back the display saved by
\* activate() and ends in Viewing; nothing typed in between reaches the data.
C5_CancelRestores ==
  [][\A c \in Cells :
       /\ (last'.op = "activate" /\ last'.cell = c)
            => /\ DataUnchanged(c)
               /\ cell'[c].originalDisplayHTML = InnerHTML(el[c].html)
       /\ (cell[c].isEditing /\ cell'[c].isEditing)
            => cell'[c].originalDisplayHTML = cell[c].originalDisplayHTML
       /\ last'.op = "none" => DataUnchanged(c)
       /\ (last'.op = "cancel" /\ last'.cell = c)
            => /\ DataUnchanged(c)
               /\ InnerHTML(el'[c].html) = cell[c].originalDisplayHTML
               /\ ~cell'[c].isEditing]_vars

\* a list editor in which items were changed has been cancelled
C5_Witness ==
  \E c \in Cells :
    /\ last.op = "cancel" /\ last.cell = c
    /\ IsListEditor(c)
    /\ cell[c].listItems # CurrentItems(cell[c].currentValue)
    /\ el[c].html.k = "view"

\* C6: a commit rejected by validation changes no data, runs no recomputation,
\* raises an error notification and leaves the cell in Viewing.
C6_RejectChangesNothing ==
  [][\A c \in Cells :
       (last'.op = "reject" /\ last'.cell = c)
       => /\ DataUnchanged(c)
          /\ toast' = "error"
          /\ ~cell'[c].isEditing
          /\ cell[c].isEditing
          /\ last'.value # cell'[c].currentValue]_vars

\* an invalid value has been rejected on a cell that has a recorded change
C6_Witness ==
  \E c \in Cells : Rejected(c) /\ toast = "error" /\ Has(changes, c)

\* C7: after a commit rejected by validation the cell shows the content it had
\* before activate(), and no longer the input element.
C7_RejectRestoresDisplay ==
  \A c \in Cells :
    Rejected(c) => InnerHTML(el[c].html) = cell[c].originalDisplayHTML

DependencyList(d) ==
  CASE d = "grandTotal" ->
         {"packagePrice", "flightsTotal", "prePostHotelsTotal", "additionalCosts"}
    [] d = "pricePerPerson" -> {"grandTotal", "guests"}
    [] OTHER -> {"startDate", "endDate"}

\* the derived fields a commit to field f reaches, directly or through grandTotal
Affected(f) ==
  { d \in CalcFields :
      \/ f \in DependencyList(d)
      \/ \E e \in CalcFields : e \in DependencyList(d) /\ f \in DependencyList(e) }

\* the value of derived field d for the baseline of opt overlaid with the
\* entries chg, grandTotal computed first
FreshValue(d, chg, opt) ==
  Calculate(d, WithGrandTotal(WorkingOption([changes |-> chg,
                                             loadedOptions |-> LoadedOptions], opt)))

\* C11: a valid commit to a field shows the recomputed value of every derived
\* field whose dependency list contains it (grandTotal and through it
\* pricePerPerson for the four price components, pricePerPerson for guests,
\* duration for the two dates); a commit to a field in no dependency list
\* changes no derived display.
C11_DependentsRedisplayed ==
  [][\A c \in Cells :
       (last'.op = "commit" /\ last'.cell = c)
       => /\ \A d \in Affected(c[2]) :
               calc'[<< c[1], d >>] = FreshValue(d, changes', c[1])
          /\ Affected(c[2]) = {} => calc' = calc]_vars

\* the keys that request navigation
NavKeys == {"Enter", "Tab", "Shift+Tab"}

\* the position in its row that the key pressed in cell c asks for
TargetIndex(c, name) == IF name = "Shift+Tab" THEN RowIndex(c) - 1 ELSE RowIndex(c) + 1

NavTimers(ts) == { i \in 1..Len(ts) : ts[i].kind = "nav" }

\* the step has set one more deferred click, on cell t
NavRequested(t) ==
  /\ Len(timers') = Len(timers) + 1
  /\ timers'[Len(timers')] = NavTimer(t)

NoNavRequested ==
  /\ Len(timers') = Len(timers)
  /\ Cardinality(NavTimers(timers')) = Cardinality(NavTimers(timers))

\* C12: Enter or Tab in the cell at position i of its row asks for the cell at
\* i + 1 of the same row and for nothing when i is the last position;
\* Shift+Tab asks for i - 1 and for nothing at the first position.  The
\* deferred click activates the cell asked for and no other cell.
C12_NavigationStaysInRow ==
  [][\A c \in Cells :
       /\ (event'.cell = c /\ event'.name \in NavKeys)
            => IF TargetIndex(c, event'.name) \in 1..Len(RowCells(c[1]))
               THEN NavRequested(CellKey(c[1], RowCells(c[1])[TargetIndex(c, event'.name)]))
               ELSE NoNavRequested
       /\ (event'.cell = c /\ event'.name = "nav")
            => /\ \A x \in Cells : (cell'[x].isEditing /\ ~cell[x].isEditing) => x = c
               /\ (editMode /\ ~cell[c].isEditing) => cell'[c].isEditing]_vars

\* in the row [startDate, flightsTotal, notes] the second cell was committed
\* with a change, and Tab has now committed the third: no click is pending
C12_Witness ==
  /\ event = Event("Tab", CellKey("o1", "notes"))
  /\ Committed(CellKey("o1", "notes"))
  /\ RowIndex(CellKey("o1", "notes")) = Len(RowCells("o1"))
  /\ Has(changes, CellKey("o1", "flightsTotal"))
  /\ sessions = 2
  /\ timers = << >>

\* C13: a navigation key whose commit is rejected by validation, or commits
\* nothing, requests no navigation: no deferred click is set.
C13_NavigationOnlyAfterCommit ==
  [][\A c \in Cells :
       (event'.cell = c /\ event'.name \in NavKeys /\ last'.op # "commit")
       => NoNavRequested]_vars

\* the entries and the display a valid commit of value v to cell c leaves
CommitDone(c, v) ==
  /\ ~cell'[c].isEditing
  /\ ~el'[c].editing
  /\ cell'[c].currentValue = v
  /\ changes' = IF v # cell[c].originalValue THEN MapSet(changes, c, v)
                ELSE MapDelete(changes, c)
  /\ changeCount' = Cardinality(DOMAIN changes')
  /\ el'[c].html = FormatDisplay(c, v)
  /\ calc' = UpdateDependentFields([changes |-> changes', calc |-> calc,
                                    loadedOptions |-> loadedOptions], c).calc

\* C14: when a navigation key commits cell c and a target exists, the handler
\* ends with the commit of c complete (store, display, calculated cells) and
\* c in Viewing, the click on the target still pending and no cell activated;
\* the target is activated by the deferred callback, a later step.
C14_CommitBeforeActivate ==
  [][\A c \in Cells :
       /\ (event'.cell = c /\ event'.name \in NavKeys)
            => /\ \A x \in Cells : cell'[x].isEditing => cell[x].isEditing /\ x # c
               /\ \A x \in Cells \ {c} : cell'[x] = cell[x] /\ el'[x] = el[x]
               /\ last'.op \in {"commit", "reject", "none"}
               /\ last'.op = "commit" => CommitDone(c, last'.value)
       /\ (event'.cell = c /\ event'.name = "nav" /\ last'.op = "activate")
            => /\ last'.cell = c
               /\ changes' = changes /\ calc' = calc /\ changeCount' = changeCount
               /\ \A x \in Cells \ {c} : cell'[x] = cell[x] /\ el'[x] = el[x]]_vars

\* the deferred click has activated the target after a commit by Tab that
\* recorded a change in the source cell
C14_Witness ==
  /\ event = Event("nav", CellKey("o1", "flightsTotal"))
  /\ last.op = "activate" /\ last.cell = CellKey("o1", "flightsTotal")
  /\ Has(changes, CellKey("o1", "startDate"))
  /\ ~cell[CellKey("o1", "startDate")].isEditing
  /\ el[CellKey("o1", "startDate")].html.k = "view"

\* item sequences to compare with: up to MaxItems items out of A, B, C
ItemAtoms == { << "A" >>, << "B" >>, << "C" >> }
ItemSeqs == UNION { [1..n -> ItemAtoms] : n \in 0..MaxItems }

\* the rows of the list editor of c show the item array, each at its position
RowsShowItems(c) == rows[c] = ItemRows(cell[c].listItems)

\* C15: a list cell whose stored string is items joined by ", " opens with
\* exactly those items in order, one row each; the delete control of an
\* editor showing its items removes one item and leaves the others in their
\* order; Done stores the items shown joined by ", ".  ("A, B, C" opens as
\* A, B, C; without the item at index 1 "A, C" is stored.)
C15_ListRoundTrip ==
  [][\A c \in Cells :
       IsListEditor(c)
       => /\ (last'.op = "activate" /\ last'.cell = c)
               => \A items \in ItemSeqs :
                    Join(items) = cell[c].currentValue
                    => cell'[c].listItems = items /\ rows'[c] = ItemRows(items)
          /\ (event' = Event("delete", c) /\ RowsShowItems(c))
               => /\ \E k \in 1..Len(cell[c].listItems) :
                       cell'[c].listItems = RemoveAt(cell[c].listItems, k)
                  /\ rows'[c] = ItemRows(cell'[c].listItems)
                  /\ cell'[c].currentValue = cell[c].currentValue
          /\ (event' = Event("done", c) /\ RowsShowItems(c)
                /\ cell[c].listItems \in ItemSeqs)
               => /\ last'.op = "commit" /\ last'.value = Join(cell[c].listItems)
                  /\ cell'[c].currentValue = Join(cell[c].listItems)
                  /\ (Join(cell[c].listItems) # cell[c].originalValue)
                       => changes'[c] = Join(cell[c].listItems)]_vars

\* "A, B, C" was stored, the editor opened again and "A, C" is now stored
C15_Witness ==
  \E c \in Cells :
    /\ IsListEditor(c)
    /\ event = Event("done", c)
    /\ Committed(c) /\ last.had
    /\ last.value = << "A", ",", " ", "C" >>
    /\ cell[c].listItems = << << "A" >>, << "C" >> >>
    /\ sessions = 2

\* saveValue has taken up value v for cell c in this step: it stored or refused it
Attempted(c) == last'.op \in {"commit", "reject"} /\ last'.cell = c

\* a calendar date written year-month-day: a month of the year and a day of
\* that month
IsCalendarDate(v) ==
  /\ IsIsoShaped(v)
  /\ MonthOf(v) \in 1..12
  /\ DayOf(v) >= 1
  /\ DayOf(v) <= (IF MonthOf(v) = 2 THEN (IF IsLeapYear(YearOf(v)) THEN 29 ELSE 28)
                  ELSE IF MonthOf(v) \in {4, 6, 9, 11} THEN 30 ELSE 31)

IsNonNegativeNumber(v) == v # << >> /\ IsDecimalLiteral(Unsigned(Trim(v))) /\ GeqZero(ToNumber(v))

C18_DerivedNeverStored ==
  [][/\ \A k \in DOMAIN changes' \cup DOMAIN originalData' :
          k \in Cells /\ k[2] \notin CalcFields
     /\ \A c \in Cells :
          (last'.op = "commit" /\ last'.cell = c)
          => /\ changes' = IF last'.value # cell[c].originalValue
                           THEN MapSet(changes, c, last'.value)
                           ELSE MapDelete(changes, c)
             /\ changeCount' = Cardinality(DOMAIN changes')
     /\ last'.op # "commit"
          => calc' = calc /\ changes' = changes /\ changeCount' = changeCount]_vars

\* a commit to packagePrice has changed the calculated cells of its option
\* and the store holds the entry of packagePrice alone
C18_Witness ==
  /\ Committed(CellKey("o1", "packagePrice"))
  /\ calc[<< "o1", "grandTotal" >>] # LoadedOptions["o1"].grandTotal
  /\ DOMAIN changes = { CellKey("o1", "packagePrice") }
  /\ changeCount = 1

\* C19: a cell goes from Viewing to Editing only in a click on it, by the user
\* or deferred by navigation, with the edit-mode flag on; a click on a cell
\* that is Editing leaves its editor and its saved display as they are.
C19_ActivationGuard ==
  [][\A c \in Cells :
       /\ (~cell[c].isEditing /\ cell'[c].isEditing)
            => /\ editMode /\ editMode'
               /\ event' \in { Event("click", c), Event("nav", c) }
               /\ last' = Op("activate", c, << >>, Has(changes, c))
       /\ (cell[c].isEditing /\ event' \in { Event("click", c), Event("nav", c) })
            => /\ cell'[c] = cell[c]
               /\ el'[c] = el[c]
               /\ input'[c] = input[c]
               /\ rows'[c] = rows[c]
               /\ last'.op = "none"
       /\ (~editMode /\ event' \in { Event("click", c), Event("nav", c) })
            => cell' = cell /\ last'.op = "none"]_vars

\* the click deferred by navigation has reached a cell that was Editing
C19_Witness ==
  /\ event.name = "nav"
  /\ cell[event.cell].isEditing
  /\ last.op = "none"
  /\ el[event.cell].html.k = "input"

\* the handler changed neither the cells nor the data
NothingDone ==
  /\ last'.op = "none"
  /\ cell' = cell /\ el' = el /\ input' = input
  /\ changes' = changes /\ originalData' = originalData
  /\ changeCount' = changeCount /\ calc' = calc

\* C20: the callback deferred by the blur of a plain editor commits the value
\* of that editor if the session the focus was lost in is still open, and
\* does nothing if that session was ended in between, whether or not the cell
\* was activated again; every commit ends the session it is made in.
C20_BlurCommitsOpenSession ==
  [][\A c \in Cells :
       /\ event' = Event("blur", c)
            => /\ Head(timers).kind = "blur" /\ Head(timers).cell = c
               /\ IF cell[c].isEditing /\ Head(timers).live
                  THEN Attempted(c) /\ last'.value = input[c] /\ ~cell'[c].isEditing
                  ELSE NothingDone
       /\ Attempted(c) => cell[c].isEditing /\ ~cell'[c].isEditing]_vars

\* the input values of the item rows of c, in row order
RowValues(c) == [i \in 1..Len(rows[c]) |-> rows[c][i].value]

\* C21: Done hands saveValue one string: the values of the item rows, trimmed,
\* without the empty ones, in row order, joined by ", ".  What was typed into
\* a row is part of it, what is left in the add-new input is not.
C21_DoneCollectsRows ==
  [][\A c \in Cells :
       (event' = Event("done", c) /\ cell[c].isEditing)
       => /\ last'.op = "commit" /\ last'.cell = c
          /\ last'.value = Join(TrimFilter(RowValues(c)))
          /\ cell'[c].currentValue = last'.value
          /\ cell'[c].listItems = TrimFilter(RowValues(c))]_vars

\* Done has stored the items of an editor in which a row was typed over with
\* text that needed trimming
C21_Witness ==
  \E c \in Cells :
    /\ event = Event("done", c) /\ Committed(c)
    /\ last.value = << "A", ",", " ", "C" >>
    /\ sessions = 1

\* the entries of the change map that belong to option opt
EntriesFor(chg, opt) == { k \in DOMAIN chg : k[1] = opt }

\* the option as loaded, each field overridden by the entry of that option
\* for the field, if there is one
OverlaidEntity(chg, opt) ==
  [LoadedOptions[opt] EXCEPT
     !.vals = [f \in BaselineFields |->
                 IF CellKey(opt, f) \in EntriesFor(chg, opt) THEN chg[CellKey(opt, f)]
                 ELSE LoadedOptions[opt].vals[f]]]

\* C22: after a valid commit to a cell of option E the derived displays are those
\* computed from E as loaded, overlaid with exactly the entries of E in the
\* change map as it is after the commit (the committed value, if it is tracked,
\* is among them); no entry of another option is used.
C22_WorkingEntityScoped ==
  [][\A c \in Cells :
       (last'.op = "commit" /\ last'.cell = c)
       => /\ Has(changes', c) => changes'[c] = last'.value
          /\ ~Has(changes', c) => last'.value = cell[c].originalValue
          /\ calc' = UpdateWith([calc |-> calc], c,
                                PricedWorkingOption(c, OverlaidEntity(changes', c[1]))).calc]_vars

\* guests of o1 committed while the change map holds a packagePrice entry for
\* the other option and none for o1
C22_Witness ==
  /\ Committed(CellKey("o1", "guests"))
  /\ Has(changes, CellKey("o1", "guests"))
  /\ Has(changes, CellKey("o2", "packagePrice"))
  /\ ~Has(changes, CellKey("o1", "packagePrice"))
  /\ changes[CellKey("o2", "packagePrice")] = << >>
  /\ calc[<< "o1", "grandTotal" >>] = 5000
  /\ calc[<< "o2", "grandTotal" >>] = 0

\* C23: the loaded options are never written: after any sequence of
\* activations, commits, cancels, key and timer steps and recomputations every
\* option in AppState.loadedOptions has the field values and the grandTotal it
\* was loaded with; overrides and recomputed values exist only in the change
\* map and in the displays.
C23_BaselineUntouched == loadedOptions = LoadedOptions

\* a tracked commit has recomputed grandTotal for display while the loaded
\* option still holds the loaded price and total
C23_Witness ==
  /\ Committed(CellKey("o1", "packagePrice"))
  /\ Has(changes, CellKey("o1", "packagePrice"))
  /\ changes[CellKey("o1", "packagePrice")] # loadedOptions["o1"].vals["packagePrice"]
  /\ calc[<< "o1", "grandTotal" >>] # loadedOptions["o1"].grandTotal
  /\ event.name = "blur"

\* C24: after every step the cell keys with an anchor are the cell keys with a
\* change value, each anchor is the originalValue of its cell, and an anchor
\* that existed before the step and still exists is the one it was: later
\* commits to the cell overwrite the new value only.
C24_AnchorImmutable ==
  [][/\ DOMAIN originalData' = DOMAIN changes'
     /\ \A k \in DOMAIN originalData' :
          /\ originalData'[k] = cell'[k].originalValue
          /\ Has(originalData, k) => originalData'[k] = originalData[k]]_vars

\* a second diverging commit to a cell that already had a change record: the
\* value is the new one, the anchor the loaded one
C24_Witness ==
  \E c \in Cells :
    /\ Committed(c) /\ last.had
    /\ Has(changes, c) /\ changes[c] = last.value
    /\ last.value = << >>
    /\ originalData[c] = << "4", "0", "0", "0" >>
    /\ sessions = 2

\* the key and button events of a list editor
ListEvents == {"rowEnter", "add", "delete", "done", "cancel"}

\* what the add-new input appends: its trimmed text, if that is not empty
Appended(v) == IF Trim(v) = << >> THEN << >> ELSE << Trim(v) >>

\* C25: no key or button event of a list editor (Enter in an item row, Enter
\* in the add-new input or the add button, delete, Done, Cancel) sets a
\* deferred click or opens a session, and none changes another cell.  Enter in
\* an item row changes nothing but the focus, which goes to the add-new input
\* of the same editor; Enter in the add-new input appends its trimmed text as
\* the last row, clears the input and keeps the session open.
C25_ListEditingSelfContained ==
  [][\A c \in Cells :
       (event'.name \in ListEvents /\ event'.cell = c)
       => /\ timers' = timers
          /\ last'.op # "activate"
          /\ Editing' \subseteq Editing
          /\ \A d \in Cells \ {c} : cell'[d] = cell[d] /\ el'[d] = el[d]
          /\ event'.name = "rowEnter"
               => /\ focus' = c
                  /\ cell' = cell /\ el' = el /\ rows' = rows /\ newInput' = newInput
                  /\ changes' = changes /\ originalData' = originalData
          /\ event'.name = "add"
               => /\ focus' = c
                  /\ [i \in 1..Len(rows'[c]) |-> rows'[c][i].value]
                       = RowValues(c) \o Appended(newInput[c])
                  /\ newInput'[c] = << >>
                  /\ cell'[c].isEditing = cell[c].isEditing
                  /\ changes' = changes /\ originalData' = originalData]_vars

\* Enter in the add-new input has appended the third item of an open list
\* editor and nothing is deferred
C25_Witness ==
  \E c \in Cells :
    /\ event = Event("add", c)
    /\ cell[c].isEditing /\ Editing = {c}
    /\ Len(rows[c]) = 3 /\ rows[c][3].value = << "C" >>
    /\ timers = << >>

\* C26: a deferred blur callback whose input has left the document (the
\* session it was set in has ended) does nothing to a later session of the
\* same cell: it neither ends the session nor writes the old input's value to
\* the change map, the cell or its display.
C26_StaleBlurHarmless ==
  [][\A c \in Cells :
       (event' = Event("blur", c) /\ ~Head(timers).live)
       => /\ cell'[c] = cell[c]
          /\ el'[c] = el[c]
          /\ changes' = changes /\ originalData' = originalData
          /\ last'.op \notin {"commit", "reject"}]_vars

\* C27: a commit by Enter, Tab or Shift+Tab of an editor that still holds the
\* value it was filled with on activation is a valid commit that leaves the
\* change map, the anchors, the change count and the changed marker of the
\* cell as they were.
C27_NoOpEditChangesNothing ==
  [][\A c \in Cells :
       (/\ event'.name \in NavKeys /\ event'.cell = c
        /\ cell[c].isEditing
        /\ input[c] = InputPrefill(c, cell[c].currentValue))
       => /\ last'.op = "commit" /\ last'.value = input[c]
          /\ changes' = changes /\ originalData' = originalData
          /\ changeCount' = changeCount
          /\ el'[c].changed = el[c].changed]_vars

\* the item array and the rows of the list editor of c agree: one element per
\* row, element i is the input value of row i, and row i carries position i
\* (counted from 0) in its index
RowsAgree(c) ==
  /\ Len(rows[c]) = Len(cell[c].listItems)
  /\ \A i \in 1..Len(rows[c]) :
       /\ rows[c][i].value = cell[c].listItems[i]
       /\ rows[c][i].index = i - 1

\* sequence s without its element at position i
Without(s, i) == [j \in 1..(Len(s) - 1) |-> IF j < i THEN s[j] ELSE s[j + 1]]

\* C28: while a list editor is shown, after every add, delete and per-row
\* edit the item array and the rows agree (one element per row, equal to the
\* row's input value, the row's index its own position); a delete removes one
\* row and the item at that row's position, and an edit of a row changes the
\* element at the row's position only.
C28_ItemsMatchRows ==
  [][\A c \in Cells :
       /\ (el'[c].html.k = "list" /\ cell'[c].isEditing) => RowsAgree(c)'
       /\ (event' = Event("delete", c) /\ el[c].html.k = "list")
            => \E i \in 1..Len(rows[c]) :
                 /\ cell'[c].listItems = Without(cell[c].listItems, i)
                 /\ RowValues(c)' = Without(RowValues(c), i)
       /\ (el[c].html.k = "list" /\ el'[c].html.k = "list" /\ event'.name = "none"
            /\ rows'[c] # rows[c])
            => \E i \in 1..Len(rows[c]) :
                 /\ cell'[c].listItems =
                      [cell[c].listItems EXCEPT ![i] = rows'[c][i].value]
                 /\ \A j \in 1..Len(rows[c]) : j # i => rows'[c][j] = rows[c][j]]_vars

\* one of the two items was deleted, the row left was typed over and an item
\* was added: the rows are numbered from 0 and hold the items
C28_Witness ==
  \E c \in Cells :
    /\ event = Event("add", c)
    /\ cell[c].isEditing /\ el[c].html.k = "list"
    /\ cell[c].listItems = << << " ", "C" >>, << "C" >> >>
    /\ RowsAgree(c)

\* the items are what Done leaves behind: none empty, none with white space
\* around it
TrimmedItems(items) == TrimFilter(items) = items

\* C29: when a list cell whose stored string is the join of the items that
\* Done collected (non-empty, trimmed, a comma inside an item allowed) is
\* activated again, the editor opens with exactly those items: the same
\* count, the same order, one row each.
C29_ListRoundTripAnyItems ==
  [][\A c \in Cells :
       (/\ last'.op = "activate" /\ last'.cell = c
        /\ FieldType(c[2]) = "list"
        /\ TrimmedItems(cell[c].listItems)
        /\ Join(cell[c].listItems) = cell[c].currentValue)
       => /\ cell'[c].listItems = cell[c].listItems
          /\ Len(rows'[c]) = Len(cell[c].listItems)
          /\ RowValues(c)' = cell[c].listItems]_vars

\* the cells of the table without neighbours
SoloCells == { CellKey("o1", "packagePrice"), CellKey("o2", "guests") }

\* the keys the keydown listener of a plain editor acts on
SessionKeys == NavKeys \cup {"Escape"}

\* C30: every session of a plain editor ends.  Enter, Tab, Shift+Tab and
\* Escape leave the cell Viewing at once, with a valid and with an invalid
\* value; a cell that is Editing while its input does not have the focus is
\* Viewing some time later, once the deferred callback has run; and a cell
\* goes from Viewing to Editing by an activation of that cell only.
C30_SessionsTerminate ==
  /\ [][\A c \in SoloCells :
          /\ (event'.name \in SessionKeys /\ event'.cell = c) => ~cell'[c].isEditing
          /\ (~cell[c].isEditing /\ cell'[c].isEditing)
               => last'.op = "activate" /\ last'.cell = c]_vars
  /\ \A c \in SoloCells :
       (cell[c].isEditing /\ focus # c) ~> ~cell[c].isEditing

\* the deferred callback of a blur has ended a session with an invalid value
C30_Witness ==
  \E c \in SoloCells :
    /\ event = Event("blur", c)
    /\ Rejected(c) /\ last.value = << "-", "5" >>
    /\ ~cell[c].isEditing
    /\ timers = << >>
====
